---- MODULE Spec2Model ----
(***************************************************************************)
(* gps_lib: validation and decoding of NMEA-0183 sentences.                *)
(*                                                                         *)
(* A text (std::string / std::string_view) is a sequence of one-character  *)
(* strings; the empty text is << >>.  Positions in the C++ code are        *)
(* 0-based, positions of TLA+ sequences are 1-based: token index k of the  *)
(* code is tokens[k + 1] here, and At(tokens, k) hides the shift.          *)
(*                                                                         *)
(* line, pc, valid, tokens, result and reads are the state of one call of  *)
(* is_valid_sample and parse.  sent is the line as its talker sent it,     *)
(* before the channel may have changed a byte of it.  file, cursor and log *)
(* belong to the driver loop of main: the lines of the input file, the     *)
(* number of them std::getline has taken, and what has been printed.       *)
(***************************************************************************)
EXTENDS Integers, Sequences, FiniteSets, TLC

VARIABLES line, pc, valid, tokens, result, reads, sent, file, cursor, log

vars == <<line, pc, valid, tokens, result, reads, sent, file, cursor, log>>

\* What a call of is_valid_sample or parse never touches.
outside == <<sent, file, cursor, log>>

(***************************************************************************)
(* Characters and their byte values.                                       *)
(***************************************************************************)
Digits == <<"0", "1", "2", "3", "4", "5", "6", "7", "8", "9">>

HexDigits == Digits \o <<"A", "B", "C", "D", "E", "F">>

Upper == <<"A", "B", "C", "D", "E", "F", "G", "H", "I", "J", "K", "L", "M",
           "N", "O", "P", "Q", "R", "S", "T", "U", "V", "W", "X", "Y", "Z">>

Lower == <<"a", "b", "c", "d", "e", "f", "g", "h", "i", "j", "k", "l", "m",
           "n", "o", "p", "q", "r", "s", "t", "u", "v", "w", "x", "y", "z">>

Range(s) == {s[i] : i \in 1..Len(s)}

IndexOf(s, c) == CHOOSE i \in 1..Len(s) : s[i] = c

\* The ASCII codes of the characters the model's texts are made of; "NUL"
\* stands for the byte 0, which std::getline and std::string_view carry like
\* any other byte.
Ascii ==
    [c \in Range(Digits) |-> 47 + IndexOf(Digits, c)]
    @@ [c \in Range(Upper) |-> 64 + IndexOf(Upper, c)]
    @@ [c \in Range(Lower) |-> 96 + IndexOf(Lower, c)]
    @@ (" " :> 32) @@ ("$" :> 36) @@ ("*" :> 42) @@ ("+" :> 43) @@ ("," :> 44)
    @@ ("-" :> 45) @@ ("." :> 46) @@ ("?" :> 63) @@ ("NUL" :> 0)

\* static_cast<unsigned char>(c)
Ord(c) == Ascii[c]

\* check ^= byte, on unsigned char: bitwise exclusive or of two bytes.
RECURSIVE BitXor(_, _)
BitXor(a, b) ==
    IF a = 0 THEN b
    ELSE IF b = 0 THEN a
    ELSE (((a % 2) + (b % 2)) % 2) + 2 * BitXor(a \div 2, b \div 2)

(***************************************************************************)
(* detail::split and detail::tokenize.                                     *)
(***************************************************************************)
\* sample.find(separator, start): the first position >= start holding the
\* separator, 0 standing for std::string::npos.
Find(sample, separator, start) ==
    LET hits == {i \in start..Len(sample) : sample[i] = separator}
    IN  IF hits = {} THEN 0 ELSE CHOOSE i \in hits : \A j \in hits : i <= j

RECURSIVE SplitLoop(_, _, _, _)
SplitLoop(sample, separator, start, acc) ==
    LET end == Find(sample, separator, start)
    IN  IF end # 0
        THEN SplitLoop(sample, separator, end + 1,
                       Append(acc, SubSeq(sample, start, end - 1)))
        ELSE Append(acc, SubSeq(sample, start, Len(sample)))

\* split without the empty tokens.
split_SkipEmpty(sample, separator) ==
    SelectSeq(SplitLoop(sample, separator, 1, << >>), LAMBDA t : t # << >>)

\* split without a trailing empty token.
split_NoTrailing(sample, separator) ==
    LET all == SplitLoop(sample, separator, 1, << >>)
    IN  IF Len(all) > 1 /\ all[Len(all)] = << >>
        THEN SubSeq(all, 1, Len(all) - 1)
        ELSE all

split(sample, separator) == SplitLoop(sample, separator, 1, << >>)

\* tokenize without the empty tokens.
tokenize_NoEmpty(sample) ==
    SelectSeq(split(split(sample, "*")[1], ","), LAMBDA t : t # << >>)

\* tokenize on the text after the last '*'.
tokenize_LastPart(sample) ==
    split(split(sample, "*")[Len(split(sample, "*"))], ",")

tokenize(sample) == split(split(sample, "*")[1], ",")

(***************************************************************************)
(* is_valid_sample: the checksum check.                                    *)
(***************************************************************************)
\* The values of an unsigned char.
Byte == 0..255

\* for (char c : sentence) check ^= c, over the positions lo..hi in order:
\* the rounds of the first half of the range, and then the rounds of the
\* second half on what the first half leaves in check, which is a byte at
\* every round.
RECURSIVE XorFrom(_, _, _, _)
XorFrom(sentence, lo, hi, check) ==
    IF check \in Byte /\ lo < hi
    THEN XorFrom(sentence, ((lo + hi) \div 2) + 1, hi,
                 XorFrom(sentence, lo, (lo + hi) \div 2, check))
    ELSE IF lo = hi THEN BitXor(check, Ord(sentence[lo]))
    ELSE check

\* The loop without its first round.
XorAll_FromSecond(sentence) == XorFrom(sentence, 2, Len(sentence), 0)

XorAll(sentence) == XorFrom(sentence, 1, Len(sentence), 0)

\* std::uppercase << std::hex << setfill('0') << setw(2) of a byte.
HexCheck(check) ==
    <<HexDigits[(check \div 16) + 1], HexDigits[(check % 16) + 1]>>

\* Part 0 without any of its leading '$'.
RECURSIVE Sentence_AllDollars(_)
Sentence_AllDollars(part0) ==
    IF part0 # << >> /\ part0[1] = "$" THEN Sentence_AllDollars(Tail(part0)) ELSE part0

\* The sentence body: part 0 without one leading '$'.
Sentence(part0) ==
    IF part0 # << >> /\ part0[1] = "$" THEN Tail(part0) ELSE part0

is_valid_sample(sample) ==
    LET parts == split(sample, "*")
    IN  IF Len(parts) < 2 \/ parts[2] = << >>
        THEN FALSE
        ELSE HexCheck(XorAll(Sentence(parts[1]))) = parts[2]

(***************************************************************************)
(* std::stod and std::stoi.  A double is kept as an exact decimal          *)
(* [mant, scale], standing for mant / 10^scale, in lowest terms (scale is  *)
(* as small as it can be and never negative); kind "inf" and "nan" are the *)
(* two special values.  Binary rounding is not modelled, and neither is    *)
(* the hexadecimal form "0x..." of strtod.                                 *)
(***************************************************************************)
IsDigit(c) == c \in Range(Digits)

ToUpper(c) == IF c \in Range(Lower) THEN Upper[IndexOf(Lower, c)] ELSE c

RECURSIVE SkipSpace(_, _)
SkipSpace(text, i) ==
    IF i <= Len(text) /\ text[i] = " " THEN SkipSpace(text, i + 1) ELSE i

RECURSIVE DigitRun(_, _)
DigitRun(text, i) ==
    IF i <= Len(text) /\ IsDigit(text[i]) THEN 1 + DigitRun(text, i + 1) ELSE 0

RECURSIVE NumVal(_)
NumVal(ds) ==
    IF ds = << >> THEN 0
    ELSE 10 * NumVal(SubSeq(ds, 1, Len(ds) - 1)) + (IndexOf(Digits, ds[Len(ds)]) - 1)

RECURSIVE StripZeros(_)
StripZeros(ds) ==
    IF ds # << >> /\ ds[1] = "0" THEN StripZeros(Tail(ds)) ELSE ds

RECURSIVE Norm(_, _)
Norm(mant, scale) ==
    IF mant = 0 THEN [kind |-> "num", mant |-> 0, scale |-> 0]
    ELSE IF scale < 0 THEN Norm(mant * 10, scale + 1)
    ELSE IF scale > 0 /\ mant % 10 = 0 THEN Norm(mant \div 10, scale - 1)
    ELSE [kind |-> "num", mant |-> mant, scale |-> scale]

NoConversion == [ok |-> FALSE, val |-> [kind |-> "nan", mant |-> 0, scale |-> 0]]

\* An optional sign at position b: its length and its value.
SignLen(text, b) == IF b <= Len(text) /\ text[b] \in {"+", "-"} THEN 1 ELSE 0

SignOf(text, b) == IF b <= Len(text) /\ text[b] = "-" THEN -1 ELSE 1

\* The length of a fraction ".ddd" at position p, the point included.
FracLen(text, p) ==
    IF p <= Len(text) /\ text[p] = "." THEN 1 + DigitRun(text, p + 1) ELSE 0

FracDigits(fl) == IF fl = 0 THEN 0 ELSE fl - 1

\* An exponent part at position p: its sign and its digits without leading
\* zeros (no digits when there is no exponent part).
Exponent(text, p) ==
    IF p <= Len(text) /\ text[p] \in {"e", "E"}
    THEN [sign   |-> SignOf(text, p + 1),
          digits |-> StripZeros(SubSeq(text, p + 1 + SignLen(text, p + 1),
                                       p + SignLen(text, p + 1)
                                         + DigitRun(text, p + 1 + SignLen(text, p + 1))))]
    ELSE [sign |-> 1, digits |-> << >>]

\* The value sgn * ds * 10^(expo - n2), unless it is outside the range of
\* double (decimal exponents -323..308), where stod throws std::out_of_range.
StodScaled(sgn, ds, n2, expo) ==
    IF Len(ds) - n2 + expo > 309 \/ Len(ds) - n2 + expo < -323
    THEN NoConversion
    ELSE [ok |-> TRUE, val |-> Norm(sgn * NumVal(ds), n2 - expo)]

StodDecimal(sgn, ds, n2, ex) ==
    IF ds = << >> THEN [ok |-> TRUE, val |-> Norm(0, 0)]
    ELSE IF Len(ex.digits) > 3 THEN NoConversion
    ELSE StodScaled(sgn, ds, n2, ex.sign * NumVal(ex.digits))

\* "inf", "infinity" and "nan" in any case.
StodWord(text, i0, sgn) ==
    LET word == [k \in 1..3 |-> IF i0 + k - 1 <= Len(text)
                                THEN ToUpper(text[i0 + k - 1]) ELSE " "]
    IN  IF word = <<"I", "N", "F">>
        THEN [ok |-> TRUE, val |-> [kind |-> "inf", mant |-> sgn, scale |-> 0]]
        ELSE IF word = <<"N", "A", "N">>
        THEN [ok |-> TRUE, val |-> [kind |-> "nan", mant |-> 0, scale |-> 0]]
        ELSE NoConversion

\* n1 digits at i0, then a fraction of length fl.
StodParts(text, i0, sgn, n1, fl) ==
    IF n1 + FracDigits(fl) = 0
    THEN StodWord(text, i0, sgn)
    ELSE StodDecimal(sgn,
                     StripZeros(SubSeq(text, i0, i0 + n1 - 1)
                                \o SubSeq(text, i0 + n1 + 1, i0 + n1 + fl - 1)),
                     FracDigits(fl),
                     Exponent(text, i0 + n1 + fl))

StodNumber(text, i0, sgn) ==
    StodParts(text, i0, sgn, DigitRun(text, i0), FracLen(text, i0 + DigitRun(text, i0)))

StodFrom(text, b) == StodNumber(text, b + SignLen(text, b), SignOf(text, b))

\* std::stod: strtod on the longest numeric prefix (white space, sign,
\* digits with an optional fraction, optional exponent); ok is FALSE where
\* stod throws (std::invalid_argument for no conversion, std::out_of_range).
stod(text) == StodFrom(text, SkipSpace(text, 1))

StoiDigits(sgn, n1, ds) ==
    IF n1 = 0 \/ Len(ds) > 9
    THEN [ok |-> FALSE, val |-> 0]
    ELSE [ok |-> TRUE, val |-> sgn * NumVal(ds)]

StoiFrom(text, b) ==
    StoiDigits(SignOf(text, b),
               DigitRun(text, b + SignLen(text, b)),
               StripZeros(SubSeq(text, b + SignLen(text, b),
                                 b + SignLen(text, b) - 1
                                   + DigitRun(text, b + SignLen(text, b)))))

\* A conversion that gives 0 where std::stoi throws.
stoi_ZeroOnFailure(text) ==
    IF StoiFrom(text, SkipSpace(text, 1)).ok
    THEN StoiFrom(text, SkipSpace(text, 1))
    ELSE [ok |-> TRUE, val |-> 0]

\* std::stoi: strtol base 10 on the longest integer prefix; ok is FALSE where
\* stoi throws (no conversion, or more digits than an int holds).
stoi(text) == StoiFrom(text, SkipSpace(text, 1))

\* A division by 10.0 in the place of the division by 100.0.
Div100_Tenth(v) == IF v.kind = "num" THEN Norm(v.mant, v.scale + 1) ELSE v

\* x / 100.0
Div100(v) == IF v.kind = "num" THEN Norm(v.mant, v.scale + 2) ELSE v

\* x * sign, sign being 1.0 or -1.0
Times(v, sign) == [v EXCEPT !.mant = v.mant * sign]

(***************************************************************************)
(* parse: the sentence decoder.                                            *)
(*                                                                         *)
(* The outcome of a call is [res, reads]: res is the value returned (a     *)
(* record of one of the seven kinds, or kind "error"), or kind "throw"     *)
(* when an exception leaves parse, or kind "crash" when the process dies;  *)
(* reads is the set of token indices (0-based) handed to tokens.at() or    *)
(* tokens[] on the way.                                                    *)
(***************************************************************************)
\* TokensPerSentence with the GSA minimum one too small.
TokensPerSentence_GsaShort ==
    [GGA |-> 15, GLL |-> 7, GSA |-> 17, GSV |-> 4, RMC |-> 12, VTG |-> 10, ZDA |-> 7]

TokensPerSentence ==
    [GGA |-> 15, GLL |-> 7, GSA |-> 18, GSV |-> 4, RMC |-> 12, VTG |-> 10, ZDA |-> 7]

ParseError ==
    {"InvalidDirection", "InvalidFormat", "MissingFields", "UnknownError",
     "UnsupportedType"}

SampleKinds == {"GGA", "GLL", "GSA", "GSV", "RMC", "VTG", "ZDA"}

Unexpected(e) == [kind |-> "error", error |-> e]

Thrown(what) == [kind |-> "throw", what |-> what]

Crashed == [kind |-> "crash"]

Out(res, reads_) == [res |-> res, reads |-> reads_]

\* tokens.at(k) and tokens[k] for k inside the vector.
At(tk, k) == tk[k + 1]

\* tokens.at(k) throws std::out_of_range unless k < tokens.size().
InRange(tk, idx) == \A k \in idx : k < Len(tk)

\* type.find(name) != std::string::npos
Contains(text, name) ==
    \E i \in 1..(Len(text) - Len(name) + 1) :
        SubSeq(text, i, i + Len(name) - 1) = name

\* The latitude direction check without the comparison with 'N' and 'S'.
LatitudeDirOk_AnyLetter(tok) == tok # << >>

LatitudeDirOk(tok) == tok # << >> /\ (tok[1] = "N" \/ tok[1] = "S")

LongitudeDirOk(tok) == tok # << >> /\ (tok[1] = "E" \/ tok[1] = "W")

Sign(direction) == IF direction = "W" THEN -1 ELSE 1

\* The GGA branch with dgps taken from token 13.
ParseGGA_DgpsAt13(tk) ==
    IF Len(tk) < TokensPerSentence.GGA
    THEN Out(Unexpected("MissingFields"), {0})
    ELSE LET lat == stod(At(tk, 2))
             lon == stod(At(tk, 4))
         IN  IF ~lat.ok
             THEN Out(Unexpected("MissingFields"), {0, 1, 2})
             ELSE IF ~LatitudeDirOk(At(tk, 3))
             THEN Out(Unexpected("InvalidDirection"), {0, 1, 2, 3})
             ELSE IF ~LongitudeDirOk(At(tk, 5))
             THEN Out(Unexpected("InvalidDirection"), {0, 1, 2, 3, 5})
             ELSE IF ~lon.ok
             THEN Out(Unexpected("MissingFields"), {0, 1, 2, 3, 4, 5})
             ELSE IF ~InRange(tk, {6, 7, 8, 9, 11, 14})
             THEN Out(Thrown("out_of_range"), (0..9) \cup {11, 14})
             ELSE Out([kind               |-> "GGA",
                       type               |-> At(tk, 0),
                       utc_time           |-> At(tk, 1),
                       latitude           |-> [value     |-> Div100(lat.val),
                                               direction |-> At(tk, 3)[1]],
                       longitude          |-> [value     |-> Times(Div100(lon.val),
                                                                   Sign(At(tk, 5)[1])),
                                               direction |-> At(tk, 5)[1]],
                       quality            |-> At(tk, 6),
                       satellites_used    |-> At(tk, 7),
                       hdop               |-> At(tk, 8),
                       altitude           |-> At(tk, 9),
                       geoidal_separation |-> At(tk, 11),
                       dgps               |-> At(tk, 13)],
                      (0..9) \cup {11, 14})

ParseGGA(tk) ==
    IF Len(tk) < TokensPerSentence.GGA
    THEN Out(Unexpected("MissingFields"), {0})
    ELSE LET lat == stod(At(tk, 2))
             lon == stod(At(tk, 4))
         IN  IF ~lat.ok
             THEN Out(Unexpected("MissingFields"), {0, 1, 2})
             ELSE IF ~LatitudeDirOk(At(tk, 3))
             THEN Out(Unexpected("InvalidDirection"), {0, 1, 2, 3})
             ELSE IF ~LongitudeDirOk(At(tk, 5))
             THEN Out(Unexpected("InvalidDirection"), {0, 1, 2, 3, 5})
             ELSE IF ~lon.ok
             THEN Out(Unexpected("MissingFields"), {0, 1, 2, 3, 4, 5})
             ELSE IF ~InRange(tk, {6, 7, 8, 9, 11, 14})
             THEN Out(Thrown("out_of_range"), (0..9) \cup {11, 14})
             ELSE Out([kind               |-> "GGA",
                       type               |-> At(tk, 0),
                       utc_time           |-> At(tk, 1),
                       latitude           |-> [value     |-> Div100(lat.val),
                                               direction |-> At(tk, 3)[1]],
                       longitude          |-> [value     |-> Times(Div100(lon.val),
                                                                   Sign(At(tk, 5)[1])),
                                               direction |-> At(tk, 5)[1]],
                       quality            |-> At(tk, 6),
                       satellites_used    |-> At(tk, 7),
                       hdop               |-> At(tk, 8),
                       altitude           |-> At(tk, 9),
                       geoidal_separation |-> At(tk, 11),
                       dgps               |-> At(tk, 14)],
                      (0..9) \cup {11, 14})

ParseGLL(tk) ==
    IF Len(tk) < TokensPerSentence.GLL
    THEN Out(Unexpected("MissingFields"), {0})
    ELSE LET lat == stod(At(tk, 1))
             lon == stod(At(tk, 3))
         IN  IF ~lat.ok
             THEN Out(Unexpected("MissingFields"), {0, 1})
             ELSE IF ~LatitudeDirOk(At(tk, 2))
             THEN Out(Unexpected("InvalidDirection"), {0, 1, 2})
             ELSE IF ~LongitudeDirOk(At(tk, 4))
             THEN Out(Unexpected("InvalidDirection"), {0, 1, 2, 4})
             ELSE IF ~lon.ok
             THEN Out(Unexpected("MissingFields"), {0, 1, 2, 3, 4})
             ELSE IF ~InRange(tk, {6, 7})
             THEN Out(Thrown("out_of_range"), {0, 1, 2, 3, 4, 6, 7})
             ELSE Out([kind      |-> "GLL",
                       type      |-> At(tk, 0),
                       latitude  |-> [value     |-> Div100(lat.val),
                                      direction |-> At(tk, 2)[1]],
                       longitude |-> [value     |-> Times(Div100(lon.val),
                                                          Sign(At(tk, 4)[1])),
                                      direction |-> At(tk, 4)[1]],
                       utc_time  |-> At(tk, 6),
                       status    |-> At(tk, 7)],
                      {0, 1, 2, 3, 4, 6, 7})

\* The GSA branch with the satellite slots taken from token 4 on.
ParseGSA_SlotsFrom4(tk) ==
    IF Len(tk) < TokensPerSentence.GSA
    THEN Out(Unexpected("MissingFields"), {0})
    ELSE IF ~InRange(tk, {1, 2, 15, 16, 17})
    THEN Out(Thrown("out_of_range"), {0, 1, 2, 15, 16, 17})
    ELSE LET slots == {i \in 0..11 : i + 4 < Len(tk)}
         IN  Out([kind       |-> "GSA",
                  type       |-> At(tk, 0),
                  mode       |-> At(tk, 1),
                  fix_type   |-> At(tk, 2),
                  satellites |-> [i \in 1..Cardinality(slots) |-> At(tk, i + 3)],
                  pdop       |-> At(tk, 15),
                  hdop       |-> At(tk, 16),
                  vdop       |-> At(tk, 17),
                  checksum   |-> << >>],
                 {0, 1, 2, 15, 16, 17} \cup {i + 4 : i \in slots})

ParseGSA(tk) ==
    IF Len(tk) < TokensPerSentence.GSA
    THEN Out(Unexpected("MissingFields"), {0})
    ELSE IF ~InRange(tk, {1, 2, 15, 16, 17})
    THEN Out(Thrown("out_of_range"), {0, 1, 2, 15, 16, 17})
    ELSE LET slots == {i \in 0..11 : i + 3 < Len(tk)}
         IN  Out([kind       |-> "GSA",
                  type       |-> At(tk, 0),
                  mode       |-> At(tk, 1),
                  fix_type   |-> At(tk, 2),
                  satellites |-> [i \in 1..Cardinality(slots) |-> At(tk, i + 2)],
                  pdop       |-> At(tk, 15),
                  hdop       |-> At(tk, 16),
                  vdop       |-> At(tk, 17),
                  checksum   |-> << >>],
                 {0, 1, 2, 15, 16, 17} \cup {i + 3 : i \in slots})

ParseRMC(tk) ==
    IF Len(tk) < TokensPerSentence.RMC
    THEN Out(Unexpected("MissingFields"), {0})
    ELSE LET lat == stod(At(tk, 3))
             lon == stod(At(tk, 5))
         IN  IF ~lat.ok
             THEN Out(Unexpected("MissingFields"), {0, 1, 2, 3})
             ELSE IF ~LatitudeDirOk(At(tk, 4))
             THEN Out(Unexpected("InvalidDirection"), {0, 1, 2, 3, 4})
             ELSE IF ~LongitudeDirOk(At(tk, 6))
             THEN Out(Unexpected("InvalidDirection"), {0, 1, 2, 3, 4, 6})
             ELSE IF ~lon.ok
             THEN Out(Unexpected("MissingFields"), 0..6)
             ELSE IF ~InRange(tk, {7, 8, 9, 11})
             THEN Out(Thrown("out_of_range"), (0..9) \cup {11})
             ELSE Out([kind      |-> "RMC",
                       type      |-> At(tk, 0),
                       utc_time  |-> At(tk, 1),
                       status    |-> At(tk, 2),
                       latitude  |-> [value     |-> Div100(lat.val),
                                      direction |-> At(tk, 4)[1]],
                       longitude |-> [value     |-> Times(Div100(lon.val),
                                                          Sign(At(tk, 6)[1])),
                                      direction |-> At(tk, 6)[1]],
                       speed     |-> At(tk, 7),
                       course    |-> At(tk, 8),
                       utc_date  |-> At(tk, 9),
                       mode      |-> At(tk, 11)],
                      (0..9) \cup {11})

ParseVTG(tk) ==
    IF Len(tk) < TokensPerSentence.VTG
    THEN Out(Unexpected("MissingFields"), {0})
    ELSE IF ~InRange(tk, {1, 3, 5, 7, 9})
    THEN Out(Thrown("out_of_range"), {0, 1, 3, 5, 7, 9})
    ELSE Out([kind            |-> "VTG",
              type            |-> At(tk, 0),
              course          |-> At(tk, 1),
              course_magnetic |-> At(tk, 3),
              speed_kn        |-> At(tk, 5),
              speed_kh        |-> At(tk, 7),
              mode            |-> At(tk, 9)],
             {0, 1, 3, 5, 7, 9})

ParseZDA(tk) ==
    IF Len(tk) < TokensPerSentence.ZDA
    THEN Out(Unexpected("MissingFields"), {0})
    ELSE IF ~InRange(tk, 1..6)
    THEN Out(Thrown("out_of_range"), 0..6)
    ELSE Out([kind               |-> "ZDA",
              type               |-> At(tk, 0),
              utc_time           |-> At(tk, 1),
              utc_day            |-> At(tk, 2),
              utc_month          |-> At(tk, 3),
              utc_year           |-> At(tk, 4),
              local_zone_hours   |-> At(tk, 5),
              local_zone_minutes |-> At(tk, 6)],
             0..6)

\* What an unchecked tokens[k] with k >= tokens.size() may hand back when it
\* does not kill the process: some text unrelated to the line.
Garbage == {<< >>, <<"?">>}

\* The GSV branch.  tokens[i * 4 + 4 .. i * 4 + 7] are read unchecked under
\* the guard i * 4 + 3 < tokens.size(); a read past the end is undefined
\* behaviour, so the branch yields a set of outcomes.
ParseGSV(tk) ==
    IF Len(tk) < TokensPerSentence.GSV
    THEN {Out(Unexpected("MissingFields"), {0})}
    ELSE LET n == stoi(At(tk, 1))
         IN  IF ~n.ok \/ n.val < 0
             THEN {Out(Unexpected("MissingFields"), {0, 1, 2, 3})}
             ELSE LET groups == {i \in 1..Len(tk) : i <= n.val /\ i * 4 + 3 < Len(tk)}
                      idx    == {i * 4 + 4 + j : i \in groups, j \in 0..3}
                      past   == {k \in idx : k >= Len(tk)}
                      Tok(g, k) == IF k \in past THEN g[k] ELSE At(tk, k)
                      Data(g) ==
                          [kind               |-> "GSV",
                           type               |-> At(tk, 0),
                           number_of_messages |-> At(tk, 1),
                           sequence_number    |-> At(tk, 2),
                           satellites_in_view |-> At(tk, 3),
                           satellites         |->
                               [i \in 1..Cardinality(groups) |->
                                   [id        |-> Tok(g, i * 4 + 4),
                                    elevation |-> Tok(g, i * 4 + 5),
                                    azimuth   |-> Tok(g, i * 4 + 6),
                                    snr       |-> Tok(g, i * 4 + 7)]]]
                  IN  {Out(Data(g), (0..3) \cup idx) : g \in [past -> Garbage]}
                      \cup (IF past = {} THEN {}
                            ELSE {Out(Crashed, (0..3) \cup idx),
                                  Out(Thrown("length_error"), (0..3) \cup idx)})

\* The dispatch with the GLL test ahead of the GGA test.
Decode_GllFirst(tk) ==
    LET type == At(tk, 0)
    IN  IF Contains(type, <<"G", "L", "L">>) THEN {ParseGLL(tk)}
        ELSE IF Contains(type, <<"G", "G", "A">>) THEN {ParseGGA(tk)}
        ELSE IF Contains(type, <<"G", "S", "A">>) THEN {ParseGSA(tk)}
        ELSE IF Contains(type, <<"G", "S", "V">>) THEN ParseGSV(tk)
        ELSE IF Contains(type, <<"R", "M", "C">>) THEN {ParseRMC(tk)}
        ELSE IF Contains(type, <<"V", "T", "G">>) THEN {ParseVTG(tk)}
        ELSE IF Contains(type, <<"Z", "D", "A">>) THEN {ParseZDA(tk)}
        ELSE {Out(Unexpected("UnsupportedType"), {0})}

\* parse.h lines 44-257: the dispatch on token 0 and the branch it selects.
Decode(tk) ==
    LET type == At(tk, 0)
    IN  IF Contains(type, <<"G", "G", "A">>) THEN {ParseGGA(tk)}
        ELSE IF Contains(type, <<"G", "L", "L">>) THEN {ParseGLL(tk)}
        ELSE IF Contains(type, <<"G", "S", "A">>) THEN {ParseGSA(tk)}
        ELSE IF Contains(type, <<"G", "S", "V">>) THEN ParseGSV(tk)
        ELSE IF Contains(type, <<"R", "M", "C">>) THEN {ParseRMC(tk)}
        ELSE IF Contains(type, <<"V", "T", "G">>) THEN {ParseVTG(tk)}
        ELSE IF Contains(type, <<"Z", "D", "A">>) THEN {ParseZDA(tk)}
        ELSE {Out(Unexpected("UnsupportedType"), {0})}

(***************************************************************************)
(* The input lines.                                                        *)
(***************************************************************************)
\* The largest number of comma-delimited tokens of a generated sentence.
MaxTokens == 19

RECURSIVE Join(_, _)
Join(toks, sep) ==
    IF toks = << >> THEN << >>
    ELSE IF Len(toks) = 1 THEN toks[1]
    ELSE toks[1] \o <<sep>> \o Join(Tail(toks), sep)

\* The decimal text of a token index: the default content of a field, so
\* that fields at different indices differ.
Dec(i) == IF i < 10 THEN <<Digits[i + 1]>>
          ELSE <<Digits[(i \div 10) + 1], Digits[(i % 10) + 1]>>

\* n tokens: the fields fixed by f, and the index's own text elsewhere.
Tokens(n, f) == [k \in 1..n |-> IF (k - 1) \in DOMAIN f THEN f[k - 1] ELSE Dec(k - 1)]

\* A sentence as a talker sends it: body, '*', checksum of the body.
Nmea(dollar, toks) ==
    LET body == Join(toks, ",")
    IN  (IF dollar THEN <<"$">> ELSE << >>) \o body \o <<"*">> \o HexCheck(XorAll(body))

TypeTokens ==
    {<<"G", "P", "G", "G", "A">>, <<"G", "N", "G", "L", "L">>, <<"G", "P", "G", "S", "A">>, <<"G", "P", "G", "S", "V">>, <<"G", "N", "R", "M", "C">>, <<"G", "P", "V", "T", "G">>, <<"G", "P", "Z", "D", "A">>,
     <<"G", "P", "X", "X", "X">>, <<"g", "p", "g", "g", "a">>, <<"G", "L", "L", "G", "G", "A">>, <<"Z", "D", "A", "R", "M", "C">>, << >>}

\* The indices of the latitude value, latitude direction, longitude value
\* and longitude direction tokens of the three sentences that carry them.
Layout ==
    [GGA |-> <<2, 3, 4, 5>>, GLL |-> <<1, 2, 3, 4>>, RMC |-> <<3, 4, 5, 6>>]

TypeName ==
    [GGA |-> <<"G", "G", "A">>, GLL |-> <<"G", "L", "L">>, GSA |-> <<"G", "S", "A">>,
     GSV |-> <<"G", "S", "V">>, RMC |-> <<"R", "M", "C">>, VTG |-> <<"V", "T", "G">>,
     ZDA |-> <<"Z", "D", "A">>]

LayoutsOf(ty) == {k \in DOMAIN Layout : Contains(ty, TypeName[k])}

Coords(lay, latv, latd, lonv, lond) ==
    (lay[1] :> latv) @@ (lay[2] :> latd) @@ (lay[3] :> lonv) @@ (lay[4] :> lond)

GoodLat == <<"4", "0", "2", "4", ".", "9", "8", "7", "9", "6">>

GoodLon == <<"0", "0", "3", "4", "0", ".", "2", "2", "5", "1", "2">>

LatVals == {GoodLat, << >>, <<"X", "1">>, <<"1", "2", "X">>}

LatDirs == {<<"N">>, <<"S">>, <<"X">>, << >>, <<"E">>, <<"n">>}

LonVals == {GoodLon, << >>, <<"-", "7">>, <<"W">>}

LonDirs == {<<"E">>, <<"W">>, <<"X">>, << >>, <<"N">>, <<"W", "e", "s", "t">>}

GsvCounts ==
    {<<"0">>, <<"1">>, <<"2">>, <<"3">>, <<"4">>, <<"-", "1">>, << >>, <<"X">>,
     <<"2", "X">>, <<"+", "1">>, <<" ", "1">>, <<"-">>}

GoodCoords(lay) == Coords(lay, GoodLat, <<"N">>, GoodLon, <<"W">>)

\* The fixed fields of a sentence: its type token and, for every coordinate
\* layout the type token may select, well-formed coordinates.
Shapes ==
    UNION {IF LayoutsOf(ty) = {} THEN {(0 :> ty)}
           ELSE {(0 :> ty) @@ GoodCoords(Layout[k]) : k \in LayoutsOf(ty)} :
           ty \in TypeTokens}

\* Every type token at every token count.
CountLines ==
    {Nmea(d, Tokens(n, f)) : f \in Shapes, n \in 1..MaxTokens, d \in BOOLEAN}

\* Coordinate sentences at and just above the minimum token count, with
\* every combination of coordinate values and direction tokens.
CoordShapes ==
    {<<<<"G", "P", "G", "G", "A">>, "GGA">>, <<<<"G", "N", "G", "L", "L">>, "GLL">>,
     <<<<"G", "N", "R", "M", "C">>, "RMC">>}

CoordLines ==
    UNION {
      {Nmea(TRUE, Tokens(n, (0 :> sh[1])
                            @@ Coords(Layout[sh[2]], latv, latd, lonv, lond))) :
          latv \in LatVals, latd \in LatDirs, lonv \in LonVals, lond \in LonDirs,
          n \in {TokensPerSentence[sh[2]], TokensPerSentence[sh[2]] + 1}} :
      sh \in CoordShapes }

\* Coordinate sentences with legal directions and numerals of every form:
\* zero, a whole number of hundreds, no integer part, a sign, leading and
\* trailing zeros.
Numerals ==
    {<<"0">>, <<"1", "0", "0">>, <<".", "5">>, <<"+", "1", ".", "5", "0">>,
     <<"-", "7">>, <<"0", "0", "9", "0", ".", "1", "0">>, GoodLat}

NumeralLines ==
    UNION {
      {Nmea(TRUE, Tokens(TokensPerSentence[sh[2]] + 1,
                         (0 :> sh[1]) @@ Coords(Layout[sh[2]], latv, latd, lonv, lond))) :
          latv \in Numerals, latd \in {<<"N">>, <<"S">>},
          lonv \in Numerals, lond \in {<<"E">>, <<"W">>}} :
      sh \in CoordShapes }

GsvLines ==
    {Nmea(d, Tokens(n, (0 :> <<"G", "P", "G", "S", "V">>) @@ (1 :> c))) :
        n \in 1..MaxTokens, c \in GsvCounts, d \in BOOLEAN}

\* Sentences with one empty field, and with every field but the coordinates
\* empty.
EmptyLines ==
    {Nmea(TRUE, Tokens(MaxTokens, (e :> << >>) @@ f)) :
        f \in Shapes, e \in 1..(MaxTokens - 1)}
    \cup
    {Nmea(TRUE, Tokens(n, f @@ [i \in 1..MaxTokens |-> << >>])) :
        f \in Shapes, n \in 1..MaxTokens}

RECURSIVE Texts(_, _)
Texts(alphabet, n) ==
    IF n = 0 THEN {<< >>}
    ELSE LET shorter == Texts(alphabet, n - 1)
         IN  shorter \cup {Append(t, c) : t \in shorter, c \in alphabet}

ToLower(c) == IF c \in Range(Upper) THEN Lower[IndexOf(Upper, c)] ELSE c

\* Short bodies with every shape of checksum part: absent, empty, right,
\* wrong, truncated, extended, lower case, and followed by a second '*'.
ChecksumTails(cs) ==
    {<< >>, <<"*">>, <<"*">> \o cs, <<"*">> \o cs \o <<"*">>,
     <<"*">> \o cs \o <<"*">> \o cs, <<"*", "*">> \o cs, <<"*", cs[1]>>,
     <<"*">> \o cs \o <<cs[2]>>, <<"*", cs[2], cs[1]>>,
     <<"*", ToLower(cs[1]), ToLower(cs[2])>>, <<"*", "0", "0">>,
     <<"*">> \o cs \o <<",">>, <<"*", " ">> \o cs}

ChecksumLines ==
    UNION {{body \o t : t \in ChecksumTails(HexCheck(XorAll(Sentence(body))))} :
           body \in Texts({"$", "M", ","}, 3)}

\* main.cpp line 33: the sample sentence of the export step.
Scenario1 ==
    <<"$", "G", "N", "R", "M", "C", ",", "2", "1", "1", "0", "4", "1", ".",
      "0", "0", ",", "A", ",", "4", "0", "2", "4", ".", "9", "8", "7", "9",
      "6", ",", "N", ",", "0", "0", "3", "4", "0", ".", "2", "2", "5", "1",
      "2", ",", "W", ",", "0", ".", "0", "2", "7", ",", ",", "0", "1", "0",
      "2", "1", "8", ",", ",", ",", "D", "*", "7", "B">>

\* The same sentence with its last field changed and the checksum kept.
Scenario2 ==
    <<"$", "G", "N", "R", "M", "C", ",", "2", "1", "1", "0", "4", "1", ".",
      "0", "0", ",", "A", ",", "4", "0", "2", "4", ".", "9", "8", "7", "9",
      "6", ",", "N", ",", "0", "0", "3", "4", "0", ".", "2", "2", "5", "1",
      "2", ",", "W", ",", "0", ".", "0", "2", "7", ",", ",", "0", "1", "0",
      "2", "1", "8", ",", ",", ",", "E", "*", "7", "B">>

Lines == CountLines \cup CoordLines \cup NumeralLines \cup GsvLines
         \cup EmptyLines \cup ChecksumLines \cup {Scenario1, Scenario2}

\* Lines a talker sends whose bytes the channel may change: the sample
\* sentence, short sentences with and without '$', with a second '$', with
\* a NUL byte, and one with text after the checksum.
Originals ==
    {Scenario1,
     Nmea(TRUE, <<<<"M">>, <<"0">>>>), Nmea(FALSE, <<<<"M">>, <<"0">>>>),
     Nmea(TRUE, <<<<"$", "M">>>>), Nmea(FALSE, <<<<"NUL", "M">>>>),
     Nmea(FALSE, <<<<"M", "NUL">>>>), Nmea(FALSE, <<<<"G", "P", "X", "X", "X">>>>),
     <<"M", "*", "4", "D", "*">>}

\* The bytes the channel may put in the place of another.
Bytes == {"E", "M", "0", "$", ",", "NUL"}

\* The positions of the bytes the checksum covers.
Covered(l) ==
    {p \in 1..Len(l) : /\ \A q \in 1..p : l[q] # "*"
                        /\ ~(p = 1 /\ l[1] = "$")}

\* The line with one covered byte replaced by a different byte, never by '*'.
Corruptions(l) ==
    UNION {{[l EXCEPT ![p] = c] : c \in Bytes \ {l[p]}} : p \in Covered(l)}

(***************************************************************************)
(* The state machine: a caller hands one line to is_valid_sample and then  *)
(* to parse.                                                               *)
(***************************************************************************)
NoResult == [kind |-> "none"]

Init ==
    /\ sent \in Lines \cup Originals
    /\ line \in {sent} \cup (IF sent \in Originals THEN Corruptions(sent) ELSE {})
    /\ pc = "start"
    /\ valid = FALSE
    /\ tokens = << >>
    /\ result = NoResult
    /\ reads = {}
    /\ file = << >>
    /\ cursor = 0
    /\ log = << >>

\* tools.h: the caller's call of is_valid_sample(line).
IsValidSample ==
    /\ pc = "start"
    /\ valid' = is_valid_sample(line)
    /\ pc' = "parse"
    /\ UNCHANGED <<line, tokens, result, reads>>
    /\ UNCHANGED outside

\* parse without its checksum check.
ParseCheck_Skipped ==
    /\ pc = "parse"
    /\ pc' = "tokenize"
    /\ UNCHANGED <<line, valid, tokens, result, reads>>
    /\ UNCHANGED outside

\* parse.h lines 33-35.
ParseCheck ==
    /\ pc = "parse"
    /\ IF ~is_valid_sample(line)
       THEN result' = Unexpected("InvalidFormat") /\ pc' = "returned"
       ELSE result' = result /\ pc' = "tokenize"
    /\ UNCHANGED <<line, valid, tokens, reads>>
    /\ UNCHANGED outside

\* parse.h lines 37-41.
ParseTokenize ==
    /\ pc = "tokenize"
    /\ tokens' = tokenize(line)
    /\ IF tokens' = << >>
       THEN result' = Unexpected("UnknownError") /\ pc' = "returned"
       ELSE result' = result /\ pc' = "decode"
    /\ UNCHANGED <<line, valid, reads>>
    /\ UNCHANGED outside

\* parse.h lines 44-257.
ParseDecode ==
    /\ pc = "decode"
    /\ \E o \in Decode(tokens) :
          /\ result' = o.res
          /\ reads' = o.reads
          /\ pc' = IF o.res.kind \in {"throw", "crash"} THEN "aborted" ELSE "returned"
    /\ UNCHANGED <<line, valid, tokens>>
    /\ UNCHANGED outside

Next == IsValidSample \/ ParseCheck \/ ParseTokenize \/ ParseDecode

Spec == Init /\ [][Next]_vars

(***************************************************************************)
(* The helpers parse_utc_time, parse_utc_date and parse_speed.  None of    *)
(* them is called by parse.                                                *)
(***************************************************************************)
\* std::string::substr(pos, n): the characters from offset pos on, at most
\* n of them; it throws std::out_of_range when pos is past the end.
SubstrThrows(text, pos) == pos > Len(text)

substr(text, pos, n) ==
    SubSeq(text, pos + 1, IF pos + n < Len(text) THEN pos + n ELSE Len(text))

parse_utc_time(utc_time) ==
    IF \/ SubstrThrows(utc_time, 0)
       \/ SubstrThrows(utc_time, 2)
       \/ SubstrThrows(utc_time, 4)
    THEN Thrown("out_of_range")
    ELSE [kind    |-> "tuple",
          first   |-> substr(utc_time, 0, 2),
          second  |-> substr(utc_time, 2, 2),
          third   |-> substr(utc_time, 4, 2)]

parse_utc_date(utc_date) ==
    IF \/ SubstrThrows(utc_date, 0)
       \/ SubstrThrows(utc_date, 2)
       \/ SubstrThrows(utc_date, 4)
    THEN Thrown("out_of_range")
    ELSE [kind    |-> "tuple",
          first   |-> substr(utc_date, 0, 2),
          second  |-> substr(utc_date, 2, 2),
          third   |-> substr(utc_date, 4, 2)]

\* enum class Units.
Units == {"ms", "kmh"}

\* Knots to metres per second: 0.514444444.
KNTOMS == [kind |-> "num", mant |-> 514444444, scale |-> 9]

\* Knots to kilometres per hour: 1.85.
KNTOKMH == [kind |-> "num", mant |-> 185, scale |-> 2]

\* velocity * factor for a positive factor; an infinity and a NaN stay
\* what they are.
Multiplied(velocity, factor) ==
    IF velocity.kind = "num"
    THEN Norm(velocity.mant * factor.mant, velocity.scale + factor.scale)
    ELSE velocity

\* std::stod throws where it converts nothing; the exception leaves
\* parse_speed.
parse_speed(speed, units) ==
    IF ~stod(speed).ok
    THEN Thrown("invalid_argument")
    ELSE Multiplied(stod(speed).val, IF units = "ms" THEN KNTOMS ELSE KNTOKMH)

(***************************************************************************)
(* Single calls of the functions of the library on arbitrary texts:        *)
(* detail::split, detail::tokenize, parse_utc_time, parse_utc_date,        *)
(* parse_speed and is_valid_sample.                                        *)
(***************************************************************************)
\* The longest text handed to a single call.
MaxText == 6

CallAlphabet == {",", "*", "a"}

\* Speeds in knots: whole numbers, with a sign, after a blank, followed by
\* a letter, and texts that hold no number.
SpeedTexts ==
    {<<"0">>, <<"1">>, <<"2">>, <<"4">>, <<"-", "2">>, <<" ", "1">>,
     <<"3", "X">>, <<"X">>, <<"X", "3">>, <<"-">>}

InitCalls ==
    /\ line \in Texts(CallAlphabet, MaxText) \cup SpeedTexts \cup ChecksumLines
    /\ pc = "call"
    /\ valid = FALSE
    /\ tokens = << >>
    /\ result = NoResult
    /\ reads = {}
    /\ sent = line
    /\ file = << >>
    /\ cursor = 0
    /\ log = << >>

\* split.h: detail::split(line, separator).
CallSplit ==
    /\ pc = "call"
    /\ \E separator \in CallAlphabet :
          /\ tokens' = split(line, separator)
          /\ result' = [kind |-> "split", separator |-> separator]
    /\ pc' = "called"
    /\ UNCHANGED <<line, valid, reads>>
    /\ UNCHANGED outside

\* tokenize.h: detail::tokenize(line); raw_data.at(0) throws when split
\* hands back no part.
CallTokenize ==
    /\ pc = "call"
    /\ IF split(line, "*") = << >>
       THEN tokens' = tokens /\ result' = Thrown("out_of_range") /\ pc' = "aborted"
       ELSE tokens' = tokenize(line) /\ result' = [kind |-> "tokenize"] /\ pc' = "called"
    /\ UNCHANGED <<line, valid, reads>>
    /\ UNCHANGED outside

\* parse_utc_time.h: detail::parse_utc_time(line).
CallParseUtcTime ==
    /\ pc = "call"
    /\ result' = [kind |-> "parse_utc_time", out |-> parse_utc_time(line)]
    /\ pc' = IF parse_utc_time(line).kind = "throw" THEN "aborted" ELSE "called"
    /\ UNCHANGED <<line, valid, tokens, reads>>
    /\ UNCHANGED outside

\* parse_utc_date.h: detail::parse_utc_date(line).
CallParseUtcDate ==
    /\ pc = "call"
    /\ result' = [kind |-> "parse_utc_date", out |-> parse_utc_date(line)]
    /\ pc' = IF parse_utc_date(line).kind = "throw" THEN "aborted" ELSE "called"
    /\ UNCHANGED <<line, valid, tokens, reads>>
    /\ UNCHANGED outside

\* parse_speed.h: detail::parse_speed(line, units).
CallParseSpeed ==
    /\ pc = "call"
    /\ \E units \in Units :
          /\ result' = [kind  |-> "parse_speed",
                        units |-> units,
                        out   |-> parse_speed(line, units)]
          /\ pc' = IF parse_speed(line, units).kind = "throw"
                   THEN "aborted" ELSE "called"
    /\ UNCHANGED <<line, valid, tokens, reads>>
    /\ UNCHANGED outside

\* tools.h: is_valid_sample on the line as it is, and on the line with a
\* '$' put in front of it.
CallIsValidSample ==
    /\ pc = "call"
    /\ valid' = is_valid_sample(line)
    /\ result' = [kind   |-> "is_valid_sample",
                  dollar |-> is_valid_sample(<<"$">> \o line)]
    /\ pc' = "called"
    /\ UNCHANGED <<line, tokens, reads>>
    /\ UNCHANGED outside

NextCalls ==
    \/ CallSplit
    \/ CallTokenize
    \/ CallParseUtcTime
    \/ CallParseUtcDate
    \/ CallParseSpeed
    \/ CallIsValidSample

Calls == InitCalls /\ [][NextCalls]_vars

(***************************************************************************)
(* The driver loop of main: every line of the input file is checked, and   *)
(* parsed and printed when its checksum is right.  An exception that       *)
(* leaves parse is caught nowhere in main, so it ends the process as a     *)
(* crash does.                                                             *)
(***************************************************************************)
\* The largest number of lines of an input file.
MaxFile == 3

\* One line of each fate: parsed to a record, checksum wrong, too few
\* fields, a malformed field, a GLL sentence of the minimum length, and a
\* GSV sentence whose group is cut short.
DriverLines ==
    {Scenario1,
     <<"M", "*", "0", "0">>,
     Nmea(TRUE, Tokens(3, (0 :> <<"G", "P", "G", "G", "A">>))),
     Nmea(TRUE, Tokens(TokensPerSentence.GGA,
                       (0 :> <<"G", "P", "G", "G", "A">>)
                       @@ Coords(Layout.GGA, <<"X", "1">>, <<"N">>, GoodLon, <<"W">>))),
     Nmea(TRUE, Tokens(TokensPerSentence.GLL,
                       (0 :> <<"G", "N", "G", "L", "L">>) @@ GoodCoords(Layout.GLL))),
     Nmea(FALSE, Tokens(8, (0 :> <<"G", "P", "G", "S", "V">>) @@ (1 :> <<"1">>)))}

InitDriver ==
    /\ file \in Texts(DriverLines, MaxFile)
    /\ cursor = 0
    /\ log = << >>
    /\ line = << >>
    /\ pc = "getline"
    /\ valid = FALSE
    /\ tokens = << >>
    /\ result = NoResult
    /\ reads = {}
    /\ sent = << >>

\* main.cpp line 23: std::getline hands over the next line.
GetLine ==
    /\ pc = "getline"
    /\ cursor < Len(file)
    /\ cursor' = cursor + 1
    /\ line' = file[cursor + 1]
    /\ tokens' = << >>
    /\ result' = NoResult
    /\ reads' = {}
    /\ pc' = "main_check"
    /\ UNCHANGED <<valid, sent, file, log>>

\* main.cpp line 23: std::getline fails at the end of the file and the loop
\* is left.
EndOfFile ==
    /\ pc = "getline"
    /\ cursor = Len(file)
    /\ pc' = "eof"
    /\ UNCHANGED <<line, valid, tokens, result, reads, sent, file, cursor, log>>

\* main.cpp line 24.
MainCheck ==
    /\ pc = "main_check"
    /\ valid' = is_valid_sample(line)
    /\ pc' = IF valid' THEN "parse" ELSE "invalid"
    /\ UNCHANGED <<line, tokens, result, reads, sent, file, cursor, log>>

\* main.cpp line 26: print_sample(data), for a record and for an error.
PrintSample ==
    /\ pc = "returned"
    /\ log' = Append(log, [line |-> line, valid |-> valid, data |-> result])
    /\ pc' = "getline"
    /\ UNCHANGED <<line, valid, tokens, result, reads, sent, file, cursor>>

\* main.cpp line 28: "Invalid sample: ...".
PrintInvalid ==
    /\ pc = "invalid"
    /\ log' = Append(log, [line |-> line, valid |-> valid, data |-> NoResult])
    /\ pc' = "getline"
    /\ UNCHANGED <<line, valid, tokens, result, reads, sent, file, cursor>>

NextDriver ==
    \/ GetLine \/ EndOfFile \/ MainCheck \/ PrintInvalid
    \/ ParseCheck \/ ParseTokenize \/ ParseDecode \/ PrintSample

Driver == InitDriver /\ [][NextDriver]_vars

(***************************************************************************)
(* Vocabulary of the properties, defined on the line itself and not by     *)
(* the operators above.                                                    *)
(***************************************************************************)
Done == pc \in {"returned", "aborted"}

Succeeded == pc = "returned" /\ result.kind \in SampleKinds

IsError(e) == pc = "returned" /\ result.kind = "error" /\ result.error = e

Stars(l) == {i \in 1..Len(l) : l[i] = "*"}

FirstStar(l) == CHOOSE i \in Stars(l) : \A j \in Stars(l) : i <= j

\* The text before the first '*' (the whole line when there is none), and
\* the text after it.
BodyOf(l) == IF Stars(l) = {} THEN l ELSE SubSeq(l, 1, FirstStar(l) - 1)

AfterStar(l) == SubSeq(l, FirstStar(l) + 1, Len(l))

\* The bytes between the optional single leading '$' and the first '*'.
Payload(l) ==
    LET b == BodyOf(l)
    IN  IF b # << >> /\ b[1] = "$" THEN SubSeq(b, 2, Len(b)) ELSE b

\* Bit j of the exclusive or of some bytes is the parity of the number of
\* bytes that have bit j set.
Bit(n, j) == (n \div (2 ^ j)) % 2

ParityXor(text) ==
    LET Ones(j) == Cardinality({i \in 1..Len(text) : Bit(Ascii[text[i]], j) = 1})
        B(j)    == (Ones(j) % 2) * (2 ^ j)
    IN  B(0) + B(1) + B(2) + B(3) + B(4) + B(5) + B(6) + B(7)

\* The two upper-case hexadecimal digits that denote n.
TwoHex(n) ==
    CHOOSE h \in Range(HexDigits) \X Range(HexDigits) :
        16 * (IndexOf(HexDigits, h[1]) - 1) + (IndexOf(HexDigits, h[2]) - 1) = n

\* The comma-delimited fields of the body, by the positions of the commas;
\* with FieldsFrom(l) the '$' is not part of field 0.
CommasOf(b) == {i \in 1..Len(b) : b[i] = ","}

Cut(b, k) ==
    IF k = 0 THEN 0
    ELSE IF k > Cardinality(CommasOf(b)) THEN Len(b) + 1
    ELSE CHOOSE i \in CommasOf(b) : Cardinality({j \in CommasOf(b) : j < i}) = k - 1

FieldCount(l) == Cardinality(CommasOf(BodyOf(l))) + 1

Field(l, k) == SubSeq(BodyOf(l), Cut(BodyOf(l), k) + 1, Cut(BodyOf(l), k + 1) - 1)

\* The sentence types in the order the decoder tries them, and the type a
\* line selects: the first whose name occurs in field 0, or "none".
KnownTypes == <<"GGA", "GLL", "GSA", "GSV", "RMC", "VTG", "ZDA">>

Occurs(name, text) ==
    \E i \in 1..Len(text) :
        /\ i + 2 <= Len(text)
        /\ <<text[i], text[i + 1], text[i + 2]>> = TypeName[name]

Selected(l) ==
    LET hits == {i \in 1..Len(KnownTypes) : Occurs(KnownTypes[i], Field(l, 0))}
    IN  IF hits = {} THEN "none"
        ELSE KnownTypes[CHOOSE i \in hits : \A j \in hits : i <= j]

\* The table of minimum token counts.
MinTokens(type) ==
    CASE type = "GGA" -> 15 [] type = "GLL" -> 7 [] type = "GSA" -> 18
      [] type = "GSV" -> 4 [] type = "RMC" -> 12 [] type = "VTG" -> 10
      [] type = "ZDA" -> 7

CoordinateTypes == {"GGA", "GLL", "RMC"}

LatValOf(l) == Field(l, Layout[Selected(l)][1])

LatDirOf(l) == Field(l, Layout[Selected(l)][2])

LonValOf(l) == Field(l, Layout[Selected(l)][3])

LonDirOf(l) == Field(l, Layout[Selected(l)][4])

LegalDirection(tok, letters) == Len(tok) >= 1 /\ tok[1] \in letters

\* A plain decimal numeral: optional sign, digits, optional fraction.
IsNumeral(tok) ==
    LET body == IF tok # << >> /\ tok[1] \in {"+", "-"} THEN Tail(tok) ELSE tok
        dots == {i \in 1..Len(body) : body[i] = "."}
    IN  /\ Cardinality(dots) <= 1
        /\ \A i \in 1..Len(body) : body[i] \in Range(Digits) \cup {"."}
        /\ \E i \in 1..Len(body) : body[i] \in Range(Digits)

IsInteger(tok) == IsNumeral(tok) /\ \A i \in 1..Len(tok) : tok[i] # "."

\* The value of a numeral as a fraction: its digits read as one whole
\* number, over ten to the number of digits behind the point.
DigitValue(c) == CHOOSE d \in 0..9 : Digits[d + 1] = c

RECURSIVE Horner(_, _, _)
Horner(tok, i, acc) ==
    IF i > Len(tok) THEN acc
    ELSE IF tok[i] \in Range(Digits) THEN Horner(tok, i + 1, 10 * acc + DigitValue(tok[i]))
    ELSE Horner(tok, i + 1, acc)

Numerator(tok) == (IF tok[1] = "-" THEN -1 ELSE 1) * Horner(tok, 1, 0)

Decimals(tok) ==
    Cardinality({i \in 1..Len(tok) : \E j \in 1..(i - 1) : tok[j] = "."})

\* The fewest decimals that n / 10^d can be written with.
FewestDecimals(n, d) ==
    CHOOSE k \in 0..d : /\ n % (10 ^ (d - k)) = 0
                         /\ \A j \in 0..(k - 1) : n % (10 ^ (d - j)) # 0

\* sign times the numeral's value divided by 100, as an exact decimal.
Hundredth(tok, sign) ==
    [kind  |-> "num",
     mant  |-> sign * (Numerator(tok)
                         \div (10 ^ (Decimals(tok) + 2
                                       - FewestDecimals(Numerator(tok), Decimals(tok) + 2)))),
     scale |-> FewestDecimals(Numerator(tok), Decimals(tok) + 2)]

West(l) == IF LonDirOf(l)[1] = "W" THEN -1 ELSE 1

\* The pieces of a text between the occurrences of a separator, by the
\* positions of the occurrences: piece k lies between occurrence k - 1 (or
\* the start) and occurrence k (or the end).
SepsOf(text, sep) == {i \in 1..Len(text) : text[i] = sep}

SepAt(text, sep, k) ==
    IF k = 0 THEN 0
    ELSE IF k > Cardinality(SepsOf(text, sep)) THEN Len(text) + 1
    ELSE CHOOSE i \in SepsOf(text, sep) :
             Cardinality({j \in SepsOf(text, sep) : j < i}) = k - 1

Piece(text, sep, k) ==
    SubSeq(text, SepAt(text, sep, k - 1) + 1, SepAt(text, sep, k) - 1)

Pieces(text, sep) ==
    [k \in 1..(Cardinality(SepsOf(text, sep)) + 1) |-> Piece(text, sep, k)]

\* The talker-ID-and-sentence-type field: field 0 without the '$' that
\* starts the line.
TypeField(l) ==
    IF l # << >> /\ l[1] = "$" THEN SubSeq(Field(l, 0), 2, Len(Field(l, 0)))
    ELSE Field(l, 0)

\* A token that starts with a numeral, which is what a conversion to a
\* number needs.
StartsWithNumber(tok) == \E n \in 1..Len(tok) : IsNumeral(SubSeq(tok, 1, n))

StartsWithInteger(tok) == \E n \in 1..Len(tok) : IsInteger(SubSeq(tok, 1, n))

\* The positions of the payload bytes of a line, and the lines that differ
\* from a line in exactly one payload byte, which is not changed into '*'.
PayloadPositions(l) ==
    (Len(BodyOf(l)) - Len(Payload(l)) + 1)..Len(BodyOf(l))

Differing(a, b) == {p \in 1..Len(a) : a[p] # b[p]}

OnePayloadByteChanged(a, b) ==
    /\ Len(a) = Len(b)
    /\ Cardinality(Differing(a, b)) = 1
    /\ Differing(a, b) \subseteq PayloadPositions(a)
    /\ \A p \in Differing(a, b) : b[p] # "*"

\* The change puts a '$' at the start of a line that had none.
DollarPutFirst(a, b) == a[1] # "$" /\ b[1] = "$"

\* The checksum test stated on the line: the text between the first and
\* the second '*' is the two-digit sum of the payload.
SumMatches(l) ==
    /\ Stars(l) # {}
    /\ TwoHex(ParityXor(Payload(l))) = Piece(l, "*", 2)

\* The driver has stopped: the loop is left, or the process has ended.
Stopped == pc \in {"eof", "aborted"}

\* A coordinate whose value token does not convert and whose direction
\* token is empty or illegal.
LatitudeAllWrong(l) ==
    ~StartsWithNumber(LatValOf(l)) /\ ~LegalDirection(LatDirOf(l), {"N", "S"})

LongitudeAllWrong(l) ==
    ~StartsWithNumber(LonValOf(l)) /\ ~LegalDirection(LonDirOf(l), {"E", "W"})

LatitudeRight(l) ==
    StartsWithNumber(LatValOf(l)) /\ LegalDirection(LatDirOf(l), {"N", "S"})

\* A token that converts to an integer: after leading blanks, it starts
\* with an integer numeral.
Blanks(tok) == {i \in 1..Len(tok) : \A j \in 1..i : tok[j] = " "}

ConvertsToInteger(tok) ==
    StartsWithInteger(SubSeq(tok, Cardinality(Blanks(tok)) + 1, Len(tok)))

SplitCalled == pc = "called" /\ result.kind = "split"

TokenizeCalled == pc = "called" /\ result.kind = "tokenize"

(***************************************************************************)
(* Properties.                                                             *)
(***************************************************************************)

\* C1: is_valid_sample(line) is true if and only if the line contains a '*'
\* and the XOR of the bytes between the optional single leading '$' and the
\* first '*', rendered as two upper-case zero-padded hexadecimal digits,
\* equals the whole text that follows that '*'.
C1_ValidIffChecksumIsRestOfLine ==
    pc # "start" =>
        (valid <=> (/\ Stars(line) # {}
                    /\ TwoHex(ParityXor(Payload(line))) = AfterStar(line)))

\* C2: parse returns InvalidFormat if and only if is_valid_sample(line) is
\* false: no other branch yields InvalidFormat, and a line that fails the
\* checksum check yields nothing else.
C2_InvalidFormatIffNotValid ==
    Done => (IsError("InvalidFormat") <=> ~valid)

C2_Witness ==
    /\ IsError("InvalidFormat")
    /\ ~valid
    /\ Stars(line) # {}

\* C3: parse is total: it never ends in an exception or an abort, and what
\* it returns is a Sample or one of the five ParseError values.
C3_ParseIsTotal ==
    /\ pc # "aborted"
    /\ pc = "returned" =>
          \/ result.kind \in SampleKinds
          \/ result.kind = "error" /\ result.error \in ParseError

\* C4: a line with a valid checksum whose field 0 selects a type and whose
\* token count is below that type's minimum makes parse return MissingFields,
\* and no token other than token 0 has been read by then.
C4_MissingFieldsBelowMinimum ==
    (/\ Done
     /\ valid
     /\ Selected(line) # "none"
     /\ FieldCount(line) < MinTokens(Selected(line)))
    => (IsError("MissingFields") /\ reads = {0})

C4_Witness ==
    /\ IsError("MissingFields")
    /\ valid
    /\ Selected(line) = "GSA"
    /\ FieldCount(line) = 10
    /\ reads = {0}

\* C5: for a line with a valid checksum, a record that parse returns is of
\* the first type of GGA, GLL, GSA, GSV, RMC, VTG, ZDA whose name occurs in
\* field 0, and parse returns UnsupportedType if and only if none occurs.
C5_TypeDispatch ==
    (Done /\ valid) =>
        /\ Succeeded => result.kind = Selected(line)
        /\ IsError("UnsupportedType") <=> Selected(line) = "none"

C5_Witness ==
    /\ Succeeded
    /\ valid
    /\ Occurs("GLL", Field(line, 0))
    /\ Occurs("GGA", Field(line, 0))
    /\ result.kind = "GGA"

\* C6: a line with a valid checksum, a known type, at least the type's
\* minimum token count, numeric coordinate tokens with legal direction
\* letters and, for GSV, an integer token 1, makes parse return a record.
C6_WellFormedLineSucceeds ==
    (/\ Done
     /\ valid
     /\ Selected(line) # "none"
     /\ FieldCount(line) >= MinTokens(Selected(line))
     /\ Selected(line) \in CoordinateTypes =>
           /\ IsNumeral(LatValOf(line))
           /\ IsNumeral(LonValOf(line))
           /\ LegalDirection(LatDirOf(line), {"N", "S"})
           /\ LegalDirection(LonDirOf(line), {"E", "W"})
     /\ Selected(line) = "GSV" => IsInteger(Field(line, 1)))
    => Succeeded

\* C7: every string field of a returned record equals the comma-delimited
\* token at the index the field table gives for it, an empty token being
\* kept as the empty string.
C7_FieldsAreTokens ==
    Succeeded =>
        CASE result.kind = "GGA" ->
                /\ result.utc_time = Field(line, 1)
                /\ result.quality = Field(line, 6)
                /\ result.satellites_used = Field(line, 7)
                /\ result.hdop = Field(line, 8)
                /\ result.altitude = Field(line, 9)
                /\ result.geoidal_separation = Field(line, 11)
                /\ result.dgps = Field(line, 14)
          [] result.kind = "GLL" ->
                /\ result.utc_time = Field(line, 6)
                /\ result.status = Field(line, 7)
          [] result.kind = "RMC" ->
                /\ result.utc_time = Field(line, 1)
                /\ result.status = Field(line, 2)
                /\ result.speed = Field(line, 7)
                /\ result.course = Field(line, 8)
                /\ result.utc_date = Field(line, 9)
                /\ result.mode = Field(line, 11)
          [] result.kind = "VTG" ->
                /\ result.course = Field(line, 1)
                /\ result.course_magnetic = Field(line, 3)
                /\ result.speed_kn = Field(line, 5)
                /\ result.speed_kh = Field(line, 7)
                /\ result.mode = Field(line, 9)
          [] result.kind = "ZDA" ->
                /\ result.utc_time = Field(line, 1)
                /\ result.utc_day = Field(line, 2)
                /\ result.utc_month = Field(line, 3)
                /\ result.utc_year = Field(line, 4)
                /\ result.local_zone_hours = Field(line, 5)
                /\ result.local_zone_minutes = Field(line, 6)
          [] OTHER -> TRUE

C7_Witness ==
    /\ Succeeded
    /\ result.kind = "RMC"
    /\ Field(line, 8) = << >>
    /\ result.course = << >>
    /\ result.speed # << >>
    /\ result.utc_date # result.speed

\* C8: the sample sentence of main.cpp passes the checksum check and parse
\* returns an RMC record with utc_time "211041.00", latitude 40.2498796 N,
\* longitude -3.4022512 W, speed "0.027" and mode "D".
C8_Scenario1 ==
    (Done /\ line = Scenario1) =>
        /\ valid
        /\ Succeeded
        /\ result.kind = "RMC"
        /\ result.utc_time = <<"2", "1", "1", "0", "4", "1", ".", "0", "0">>
        /\ result.latitude.value = [kind |-> "num", mant |-> 402498796, scale |-> 7]
        /\ result.latitude.direction = "N"
        /\ result.longitude.value = [kind |-> "num", mant |-> -34022512, scale |-> 7]
        /\ result.longitude.direction = "W"
        /\ result.speed = <<"0", ".", "0", "2", "7">>
        /\ result.mode = <<"D">>

\* C9: a GGA, GLL or RMC line with a valid checksum and at least the minimum
\* token count whose latitude or longitude direction token is empty or does
\* not start with a legal letter of its axis makes parse return
\* InvalidDirection.
C9_BadDirectionIsInvalidDirection ==
    (/\ Done
     /\ valid
     /\ Selected(line) \in CoordinateTypes
     /\ FieldCount(line) >= MinTokens(Selected(line))
     /\ \/ ~LegalDirection(LatDirOf(line), {"N", "S"})
        \/ ~LegalDirection(LonDirOf(line), {"E", "W"}))
    => IsError("InvalidDirection")

\* C10: in every GGA, GLL or RMC record parse returns, latitude.direction is
\* 'N' or 'S' and longitude.direction is 'E' or 'W', each the first
\* character of its direction token.
C10_DirectionsAreLegal ==
    (Succeeded /\ result.kind \in CoordinateTypes) =>
        /\ result.latitude.direction \in {"N", "S"}
        /\ result.longitude.direction \in {"E", "W"}
        /\ LatDirOf(line) # << >> /\ result.latitude.direction = LatDirOf(line)[1]
        /\ LonDirOf(line) # << >> /\ result.longitude.direction = LonDirOf(line)[1]

C10_Witness ==
    /\ Succeeded
    /\ result.kind = "GGA"
    /\ result.latitude.direction = "S"
    /\ result.longitude.direction = "W"
    /\ Len(LonDirOf(line)) > 1

\* C11: in every GGA, GLL or RMC record parse returns, latitude.value is the
\* value of the latitude numeral divided by 100 whatever the latitude
\* direction, and longitude.value is the value of the longitude numeral
\* divided by 100, times -1 when the longitude direction is 'W' and times +1
\* otherwise.
C11_CoordinateConversion ==
    (Succeeded /\ result.kind \in CoordinateTypes) =>
        /\ IsNumeral(LatValOf(line)) =>
              result.latitude.value = Hundredth(LatValOf(line), 1)
        /\ IsNumeral(LonValOf(line)) =>
              result.longitude.value = Hundredth(LonValOf(line), West(line))

C11_Witness ==
    /\ Succeeded
    /\ result.kind = "GLL"
    /\ IsNumeral(LatValOf(line))
    /\ IsNumeral(LonValOf(line))
    /\ LatDirOf(line) = <<"S">>
    /\ result.latitude.value = [kind |-> "num", mant |-> 5, scale |-> 3]
    /\ LonDirOf(line) = <<"W">>
    /\ result.longitude.value = [kind |-> "num", mant |-> -901, scale |-> 3]

\* C12: in every GGA, GLL or RMC record parse returns, longitude.value is
\* negative or zero when longitude.direction is 'W', and is not negative
\* when longitude.direction is 'E'.
C12_LongitudeSignFolded ==
    (Succeeded /\ result.kind \in CoordinateTypes) =>
        /\ result.longitude.direction = "W" => result.longitude.value.mant <= 0
        /\ result.longitude.direction = "E" => result.longitude.value.mant >= 0

C15_TypeTokenWithoutDollar ==
    /\ tokens # << >> => At(tokens, 0) = TypeField(line)
    /\ Succeeded => result.type = TypeField(line)

\* C16: a line that is_valid_sample accepts, and so a line that parse does
\* not reject with InvalidFormat, contains exactly one '*'.
C16_AcceptedLineHasOneStar ==
    /\ (pc # "start" /\ valid) => Cardinality(Stars(line)) = 1
    /\ (Done /\ ~IsError("InvalidFormat")) => Cardinality(Stars(line)) = 1

\* C19: parse returns MissingFields only for a line with fewer tokens than
\* its type's minimum, or for a coordinate line whose latitude or longitude
\* value token does not convert to a number, or for a GSV line whose token 1
\* does not convert to an integer.
C19_MissingFieldsOnlyForItsCauses ==
    (IsError("MissingFields") /\ Selected(line) # "none") =>
        \/ FieldCount(line) < MinTokens(Selected(line))
        \/ /\ Selected(line) \in CoordinateTypes
           /\ \/ ~StartsWithNumber(LatValOf(line))
              \/ ~StartsWithNumber(LonValOf(line))
        \/ /\ Selected(line) = "GSV"
           /\ ~StartsWithInteger(Field(line, 1))

C17_EveryLineHandled ==
    /\ Len(log) <= cursor
    /\ \A i \in 1..Len(log) :
          /\ log[i].line = file[i]
          /\ log[i].valid <=> SumMatches(file[i])
          /\ log[i].valid <=> log[i].data # NoResult
    /\ Stopped => Len(log) = Len(file)

\* C18: what is_valid_sample and parse give for a line depends on the line
\* alone: two lines of the file with the same text get the same verdict and
\* the same record or error, whatever was handled in between.
C18_SameLineSameResult ==
    \A i, j \in 1..Len(log) : log[i].line = log[j].line => log[i] = log[j]

\* C21: in a GGA, GLL or RMC line with a valid checksum and enough tokens,
\* a coordinate whose value token does not convert and whose direction token
\* is empty or illegal makes parse return InvalidDirection, not
\* MissingFields: for the latitude, and for the longitude of a line whose
\* latitude is right.
C21_DirectionBeforeValue ==
    (/\ Done
     /\ valid
     /\ Selected(line) \in CoordinateTypes
     /\ FieldCount(line) >= MinTokens(Selected(line))
     /\ \/ LatitudeAllWrong(line)
        \/ LatitudeRight(line) /\ LongitudeAllWrong(line))
    => IsError("InvalidDirection")

\* C22: for a GSV line with a valid checksum and at least 4 tokens, every
\* token index that parse accesses is less than the number of tokens.
C22_GsvReadsWithinBounds ==
    (/\ Done
     /\ valid
     /\ Selected(line) = "GSV"
     /\ FieldCount(line) >= 4)
    => \A k \in reads : k < FieldCount(line)

C24_GsaSlots ==
    (Succeeded /\ result.kind = "GSA") =>
        /\ result.satellites = [i \in 1..12 |-> Field(line, i + 2)]
        /\ result.pdop = Field(line, 15)
        /\ result.hdop = Field(line, 16)
        /\ result.vdop = Field(line, 17)

C24_Witness ==
    /\ Succeeded
    /\ result.kind = "GSA"
    /\ FieldCount(line) >= 18
    /\ Len(result.satellites) = 12
    /\ result.satellites[1] = <<"3">>
    /\ result.satellites[2] = << >>
    /\ result.satellites[12] = <<"1", "4">>

UtcCalled ==
    /\ pc \in {"called", "aborted"}
    /\ result.kind \in {"parse_utc_time", "parse_utc_date"}

\* The two characters of a text at offsets k and k + 1.
TwoAt(text, k) == <<text[k + 1], text[k + 2]>>

\* C26: parse_utc_time and parse_utc_date return the three two-character
\* slices at offsets 0, 2 and 4 of an input of six characters or more, and
\* fail on every shorter input: they never return a tuple with an empty or
\* a shortened component.
C26_UtcSlicesOrFailure ==
    UtcCalled =>
        IF Len(line) >= 6
        THEN /\ pc = "called"
             /\ result.out.kind = "tuple"
             /\ result.out.first = TwoAt(line, 0)
             /\ result.out.second = TwoAt(line, 2)
             /\ result.out.third = TwoAt(line, 4)
        ELSE result.out.kind # "tuple"

\* parse_speed has been called on the line.
SpeedCalled ==
    /\ pc \in {"called", "aborted"}
    /\ result.kind = "parse_speed"

\* The value of a numeral times num / 10^decimals, as an exact decimal.
Product(tok, num, decimals) ==
    [kind  |-> "num",
     mant  |-> (Numerator(tok) * num)
                 \div (10 ^ (Decimals(tok) + decimals
                               - FewestDecimals(Numerator(tok) * num,
                                                Decimals(tok) + decimals))),
     scale |-> FewestDecimals(Numerator(tok) * num, Decimals(tok) + decimals)]

\* A text that holds a number: after leading blanks, it starts with a
\* numeral.
HoldsNumber(text) ==
    StartsWithNumber(SubSeq(text, Cardinality(Blanks(text)) + 1, Len(text)))

\* C27: parse_speed returns the knots value of the text times 0.514444444
\* for metres per second and times 1.85 for kilometres per hour, and for a
\* text that holds no number it returns the error value MissingFields.
C27_SpeedOrMissingFields ==
    SpeedCalled =>
        /\ pc = "called"
        /\ IF IsNumeral(line)
           THEN result.out = IF result.units = "ms"
                             THEN Product(line, 514444444, 9)
                             ELSE Product(line, 185, 2)
           ELSE HoldsNumber(line) \/ result.out = Unexpected("MissingFields")

\* The integer a token converts to: the value of the longest integer
\* numeral it starts with after its leading blanks.
Unblanked(tok) == SubSeq(tok, Cardinality(Blanks(tok)) + 1, Len(tok))

IntegerPrefix(tok) ==
    SubSeq(tok, 1, CHOOSE n \in 1..Len(tok) :
                       /\ IsInteger(SubSeq(tok, 1, n))
                       /\ \A m \in (n + 1)..Len(tok) : ~IsInteger(SubSeq(tok, 1, m)))

IntegerValue(tok) == Numerator(IntegerPrefix(Unblanked(tok)))

\* The satellite groups of a GSV line: the k from 1 to the value of field
\* 1 with 4k + 3 below the number of fields.
GsvGroups(l) ==
    {k \in 1..FieldCount(l) : k <= IntegerValue(Field(l, 1)) /\ 4 * k + 3 < FieldCount(l)}

\* C28: a successfully parsed GSV line returns one satellite for every k
\* from 1 to the integer value of token 1 with 4k + 3 below the number of
\* tokens, and the k-th satellite is made of tokens 4k + 4 to 4k + 7, so
\* that tokens 4 to 7 are in no satellite.
C28_GsvShape ==
    (Succeeded /\ result.kind = "GSV") =>
        /\ Len(result.satellites) = Cardinality(GsvGroups(line))
        /\ \A k \in 1..Len(result.satellites) :
              /\ 4 * k + 7 < FieldCount(line)
              /\ result.satellites[k] = [id        |-> Field(line, 4 * k + 4),
                                         elevation |-> Field(line, 4 * k + 5),
                                         azimuth   |-> Field(line, 4 * k + 6),
                                         snr       |-> Field(line, 4 * k + 7)]

\* C29: split loses nothing: no token it returns holds the separator, and
\* the tokens, in the order returned and with the separator put between
\* them, are the input text.
C29_SplitRoundTrip ==
    SplitCalled =>
        /\ \A i \in 1..Len(tokens) :
              \A j \in 1..Len(tokens[i]) : tokens[i][j] # result.separator
        /\ Join(tokens, result.separator) = line

C29_Witness ==
    /\ SplitCalled
    /\ result.separator = "*"
    /\ line = <<"*", "a", ",", "*", "*">>
    /\ tokens = << << >>, <<"a", ",">>, << >>, << >> >>

\* is_valid_sample has been called on the line and on '$' + line.
ValidityCalled == pc = "called" /\ result.kind = "is_valid_sample"

BeginsWithDollar(l) == l # << >> /\ l[1] = "$"

\* C30: a '$' put in front of a line with a '*' that does not begin with
\* '$' leaves the verdict of is_valid_sample as it is; put in front of a
\* line that begins with '$', only the new '$' is dropped, and the line's
\* own '$' counts in the sum that is compared with the checksum text.
C30_LeadingDollarInvariance ==
    (ValidityCalled /\ Stars(line) # {}) =>
        IF BeginsWithDollar(line)
        THEN result.dollar <=> /\ Piece(line, "*", 2) # << >>
                               /\ TwoHex(ParityXor(BodyOf(line))) = Piece(line, "*", 2)
        ELSE result.dollar <=> valid

C30_Witness ==
    /\ ValidityCalled
    /\ line = <<"M", ",", "*", "6", "1">>
    /\ valid
    /\ result.dollar

====
